---- MODULE Spec2Model ----
(***************************************************************************)
(* Model of src/src/lib.rs: the four Control API operations of the audio   *)
(* mixer binding (list_audio_sessions, set_master_volume,                  *)
(* mute_master_volume, set_app_volume) running against the audio sessions  *)
(* the OS subsystem holds.                                                  *)
(*                                                                          *)
(* Strings are sequences of one-character strings.  A volume scalar (f32   *)
(* in the source) is the exact fraction [num, den]; rounding of the f32    *)
(* representation is not modelled.  The icon payload of an entry is        *)
(* supplied by an external service that can never make the call fail and   *)
(* is left out of the entries.                                              *)
(***************************************************************************)
EXTENDS Integers, Sequences, FiniteSets, TLC

(* ------------------------------ bounds --------------------------------- *)

\* Largest number of audio sessions the subsystem enumerates.
MaxSessions == 2

\* Longest executable path explored when deriving app_name (SpecPaths).
MaxPathLen == 4

(* --------------------------- program constants ------------------------- *)

\* The divisor of `volume as f32 / 100.0`.
PercentScale == 100

\* Largest value of the u8 volume argument.
U8Max == 255

(* ------------------------------ input sets ----------------------------- *)

\* Volume arguments tried: both ends of the percent range, a value inside
\* it, the first value beyond it and the largest u8.
VolumeArgs == {0, 50, PercentScale, PercentScale + 1, U8Max}

\* The audio-producing processes of the main specification, as pid and
\* executable path: one whose path the OS cannot resolve (empty), "\Ab.a"
\* under the same pid, and "\b.a.b".  An enumeration may repeat a process.
Processes ==
    { [pid |-> 7, path |-> <<>>],
      [pid |-> 7, path |-> <<"\\", "A", "b", ".", "a">>],
      [pid |-> 9, path |-> <<"\\", "b", ".", "a", ".", "b">>] }

\* Name fragments passed to set_app_volume: "", "AB", "b", "x".
Fragments == { <<>>, <<"A", "B">>, <<"b">>, <<"x">> }

\* Volume scalars a session may hold when the program is first called.
InitVolumes == { [num |-> 50, den |-> 100] }

\* Characters of the paths explored by SpecPaths.
PathAlphabet == {"a", "B", ".", "\\"}

(* ------------------------------ scalars -------------------------------- *)

ScalarLE(a, b) == a.num * b.den <= b.num * a.den

ScalarEq(a, b) == a.num * b.den = b.num * a.den

ScalarZero == [num |-> 0, den |-> 1]

ScalarOne == [num |-> 1, den |-> 1]

InUnitRange(s) == ScalarLE(ScalarZero, s) /\ ScalarLE(s, ScalarOne)

\* A faulty variant: the argument scaled by the range of its type.
NormalizeByU8Max(volume) == [num |-> volume, den |-> U8Max]

\* let normalized = volume as f32 / 100.0;
Normalize(volume) == [num |-> volume, den |-> PercentScale]

(* ------------------------------ strings -------------------------------- *)

\* char::to_lowercase on the letters used here.
LowerChar(c) ==
    CASE c = "A" -> "a"
      [] c = "B" -> "b"
      [] OTHER -> c

\* str::to_lowercase
ToLowercase(s) == [i \in 1..Len(s) |-> LowerChar(s[i])]

\* str::contains(&str): the needle occurs as a contiguous substring.
Contains(hay, needle) ==
    \E k \in 0..(Len(hay) - Len(needle)) :
        SubSeq(hay, k + 1, k + Len(needle)) = needle

\* std::path separators on Windows.
IsSeparator(c) == c = "\\" \/ c = "/"

\* The components of a path: the maximal separator-free runs, in order.
RECURSIVE SplitPath(_, _, _)
SplitPath(path, i, cur) ==
    IF i > Len(path)
    THEN IF cur = <<>> THEN <<>> ELSE <<cur>>
    ELSE IF IsSeparator(path[i])
         THEN (IF cur = <<>> THEN <<>> ELSE <<cur>>) \o SplitPath(path, i + 1, <<>>)
         ELSE SplitPath(path, i + 1, Append(cur, path[i]))

\* Path::file_name: the last component when it is a normal one.  "."
\* components are skipped by the component iterator (a leading one is a
\* CurDir component, never a normal one); a final ".." or a path with no
\* normal component has no file name (None, here the empty string, which
\* unwrap_or_default turns it into).
FileName(path) ==
    LET comps == SelectSeq(SplitPath(path, 1, <<>>), LAMBDA c : c # <<".">>)
    IN  IF comps = <<>> THEN <<>>
        ELSE IF comps[Len(comps)] = <<".", ".">> THEN <<>>
        ELSE comps[Len(comps)]

\* Positions of '.' in a string.
DotPositions(name) == {i \in 1..Len(name) : name[i] = "."}

\* name.split('.').next().unwrap_or(""): the text before the first '.'.
FirstSplit(name) ==
    IF DotPositions(name) = {} THEN name
    ELSE LET first == CHOOSE i \in DotPositions(name) :
                          \A j \in DotPositions(name) : i <= j
         IN  SubSeq(name, 1, first - 1)

\* The app_name of an entry (lib.rs 42-46).
AppName(path) == FirstSplit(FileName(path))

(* ------------------------------- state --------------------------------- *)

VARIABLES
    sessions,   \* the OS audio sessions in enumeration order: pid, path, vol, muted
    last,       \* the latest Control API call: operation, arguments, and what the
                \* subsystem answered during it (enumeration outcome, the handle
                \* whose read failed, whether the setter call succeeded)
    ret,        \* what the latest call returned: Ok(message / entries) or Err
    written,    \* the setter calls the latest call issued to session handles
    touched,    \* the handles some call has issued a setter to
    initial     \* the sessions as they were before the first call

vars == <<sessions, last, ret, written, touched, initial>>

SessionRecords ==
    { [pid |-> p.pid, path |-> p.path, vol |-> v, muted |-> FALSE] :
        p \in Processes, v \in InitVolumes }

\* All sequences over S of length 0..n.
RECURSIVE SeqsUpTo(_, _)
SeqsUpTo(S, n) ==
    IF n = 0 THEN {<<>>}
    ELSE LET shorter == SeqsUpTo(S, n - 1)
         IN  shorter \cup {Append(q, x) : q \in {r \in shorter : Len(r) = n - 1}, x \in S}

NoCall ==
    [op |-> "none", name |-> <<>>, volume |-> 0, mute |-> FALSE,
     enumOk |-> TRUE, badRead |-> 0, setOk |-> TRUE]

NoRet == [status |-> "none", msg |-> [kind |-> "", args |-> <<>>], list |-> <<>>]

\* The program keeps no state of its own; the subsystem holds any sessions.
Init ==
    /\ sessions \in SeqsUpTo(SessionRecords, MaxSessions)
    /\ initial = sessions
    /\ last = NoCall
    /\ ret = NoRet
    /\ written = <<>>
    /\ touched = {}

(* ------------------------- the OS audio subsystem ---------------------- *)

\* winmix.enumerate(): one handle (the session's index) with pid and path
\* per session, or a subsystem error.
Enumerate(ss, enumOk) ==
    [ok |-> enumOk,
     items |-> IF enumOk
               THEN [i \in 1..Len(ss) |-> [handle |-> i, pid |-> ss[i].pid, path |-> ss[i].path]]
               ELSE <<>>]

\* session.vol.get_master_volume() / get_mute(): fail on the handle that
\* went stale.
HandleReadable(h, badRead) == h # badRead

\* The scalar the session holds after an accepted write: the subsystem
\* never holds a scalar outside [0, 1].
Clamp(val) ==
    IF ScalarLE(val, ScalarZero) THEN [num |-> 0, den |-> val.den]
    ELSE IF ScalarLE(ScalarOne, val) THEN [num |-> val.den, den |-> val.den]
    ELSE val

\* session.vol.set_master_volume(val): the subsystem fails the call (a
\* stale handle, a scalar it rejects) or stores the scalar.
HandleSetVolume(ss, h, val, setOk) ==
    IF ~setOk
    THEN [ok |-> FALSE, sessions |-> ss]
    ELSE [ok |-> TRUE, sessions |-> [ss EXCEPT ![h].vol = Clamp(val)]]

\* session.vol.set_mute(flag): the subsystem fails the call or stores the flag.
HandleSetMute(ss, h, flag, setOk) ==
    IF ~setOk
    THEN [ok |-> FALSE, sessions |-> ss]
    ELSE [ok |-> TRUE, sessions |-> [ss EXCEPT ![h].muted = flag]]

(* ------------------------------ results -------------------------------- *)

Err == [status |-> "err", msg |-> [kind |-> "error", args |-> <<>>], list |-> <<>>]

OkMsg(kind, args) == [status |-> "ok", msg |-> [kind |-> kind, args |-> args], list |-> <<>>]

OkList(entries) == [status |-> "ok", msg |-> [kind |-> "json", args |-> <<>>], list |-> entries]

MasterSetMsg(volume, normalized) ==
    OkMsg("Master volume set to {}% (normalized: {:.2})", <<volume, normalized>>)

MasterMuteMsg(mute) == OkMsg("Master volume muted: {}", <<mute>>)

NoMasterMsg == OkMsg("No master session found", <<>>)

AppSetMsg(app_name, volume, normalized) ==
    OkMsg("Volume for '{}' set to {}% (normalized: {:.2})", <<app_name, volume, normalized>>)

AppNotFoundMsg(app_name) == OkMsg("Could not find an application named '{}'", <<app_name>>)

Call(op, name, volume, mute, enumOk, badRead, setOk) ==
    [op |-> op, name |-> name, volume |-> volume, mute |-> mute,
     enumOk |-> enumOk, badRead |-> badRead, setOk |-> setOk]

(* ------------------------- list_audio_sessions ------------------------- *)

\* A faulty variant: an entry whose read fails is skipped.
RECURSIVE ReadEntriesSkipping(_, _, _, _)
ReadEntriesSkipping(ss, items, badRead, i) ==
    IF i > Len(items) THEN [ok |-> TRUE, list |-> <<>>]
    ELSE LET rest == ReadEntriesSkipping(ss, items, badRead, i + 1)
             entry == [pid |-> items[i].pid,
                       path |-> items[i].path,
                       volume |-> ss[items[i].handle].vol,
                       muted |-> ss[items[i].handle].muted,
                       app_name |-> AppName(items[i].path)]
         IN  IF HandleReadable(items[i].handle, badRead)
             THEN [ok |-> TRUE, list |-> <<entry>> \o rest.list]
             ELSE rest

\* A faulty variant: every entry carries the volume and mute flag of the
\* first enumerated session.
RECURSIVE ReadEntriesOfFirst(_, _, _, _)
ReadEntriesOfFirst(ss, items, badRead, i) ==
    IF i > Len(items) THEN [ok |-> TRUE, list |-> <<>>]
    ELSE IF ~HandleReadable(items[i].handle, badRead) THEN [ok |-> FALSE, list |-> <<>>]
    ELSE LET rest == ReadEntriesOfFirst(ss, items, badRead, i + 1)
             entry == [pid |-> items[i].pid,
                       path |-> items[i].path,
                       volume |-> ss[items[1].handle].vol,
                       muted |-> ss[items[1].handle].muted,
                       app_name |-> AppName(items[i].path)]
         IN  IF rest.ok
             THEN [ok |-> TRUE, list |-> <<entry>> \o rest.list]
             ELSE [ok |-> FALSE, list |-> <<>>]

\* The body of the for loop: one AudioSession per enumerated item, the
\* first failing read abandoning the whole vector.
RECURSIVE ReadEntries(_, _, _, _)
ReadEntries(ss, items, badRead, i) ==
    IF i > Len(items) THEN [ok |-> TRUE, list |-> <<>>]
    ELSE IF ~HandleReadable(items[i].handle, badRead) THEN [ok |-> FALSE, list |-> <<>>]
    ELSE LET rest == ReadEntries(ss, items, badRead, i + 1)
             entry == [pid |-> items[i].pid,
                       path |-> items[i].path,
                       volume |-> ss[items[i].handle].vol,
                       muted |-> ss[items[i].handle].muted,
                       app_name |-> AppName(items[i].path)]
         IN  IF rest.ok
             THEN [ok |-> TRUE, list |-> <<entry>> \o rest.list]
             ELSE [ok |-> FALSE, list |-> <<>>]

ListAudioSessions(enumOk, badRead) ==
    LET enum == Enumerate(sessions, enumOk)
        read == ReadEntries(sessions, enum.items, badRead, 1)
    IN  /\ last' = Call("list_audio_sessions", <<>>, 0, FALSE, enumOk, badRead, TRUE)
        /\ ret' = IF ~enum.ok THEN Err
                  ELSE IF ~read.ok THEN Err
                  ELSE OkList(read.list)
        /\ written' = <<>>
        /\ UNCHANGED <<sessions, touched, initial>>

(* -------------------------- set_master_volume -------------------------- *)

\* .into_iter().next(): the handle of the first enumerated item, 0 for None.
FirstItem(items) == IF Len(items) = 0 THEN 0 ELSE items[1].handle

SetMasterVolume(volume, enumOk, setOk) ==
    LET enum == Enumerate(sessions, enumOk)
        normalized == Normalize(volume)
        master == FirstItem(enum.items)
        set == HandleSetVolume(sessions, master, normalized, setOk)
    IN  /\ last' = Call("set_master_volume", <<>>, volume, FALSE, enumOk, 0, setOk)
        /\ IF ~enum.ok
           THEN /\ ret' = Err
                /\ written' = <<>>
                /\ UNCHANGED <<sessions, touched>>
           ELSE IF master = 0
           THEN /\ ret' = NoMasterMsg
                /\ written' = <<>>
                /\ UNCHANGED <<sessions, touched>>
           ELSE /\ written' = <<[handle |-> master, attr |-> "volume", val |-> normalized]>>
                /\ touched' = touched \cup {master}
                /\ sessions' = set.sessions
                /\ ret' = IF set.ok THEN MasterSetMsg(volume, normalized) ELSE Err
        /\ UNCHANGED initial

(* -------------------------- mute_master_volume ------------------------- *)

\* A faulty variant: the flag reaches the setter negated.
MuteMasterVolumeNegated(mute, enumOk, setOk) ==
    LET enum == Enumerate(sessions, enumOk)
        master == FirstItem(enum.items)
        set == HandleSetMute(sessions, master, ~mute, setOk)
    IN  /\ last' = Call("mute_master_volume", <<>>, 0, mute, enumOk, 0, setOk)
        /\ IF ~enum.ok
           THEN /\ ret' = Err
                /\ written' = <<>>
                /\ UNCHANGED <<sessions, touched>>
           ELSE IF master = 0
           THEN /\ ret' = NoMasterMsg
                /\ written' = <<>>
                /\ UNCHANGED <<sessions, touched>>
           ELSE /\ written' = <<[handle |-> master, attr |-> "mute", val |-> ~mute]>>
                /\ touched' = touched \cup {master}
                /\ sessions' = set.sessions
                /\ ret' = IF set.ok THEN MasterMuteMsg(mute) ELSE Err
        /\ UNCHANGED initial

MuteMasterVolume(mute, enumOk, setOk) ==
    LET enum == Enumerate(sessions, enumOk)
        master == FirstItem(enum.items)
        set == HandleSetMute(sessions, master, mute, setOk)
    IN  /\ last' = Call("mute_master_volume", <<>>, 0, mute, enumOk, 0, setOk)
        /\ IF ~enum.ok
           THEN /\ ret' = Err
                /\ written' = <<>>
                /\ UNCHANGED <<sessions, touched>>
           ELSE IF master = 0
           THEN /\ ret' = NoMasterMsg
                /\ written' = <<>>
                /\ UNCHANGED <<sessions, touched>>
           ELSE /\ written' = <<[handle |-> master, attr |-> "mute", val |-> mute]>>
                /\ touched' = touched \cup {master}
                /\ sessions' = set.sessions
                /\ ret' = IF set.ok THEN MasterMuteMsg(mute) ELSE Err
        /\ UNCHANGED initial

(* ----------------------------- set_app_volume -------------------------- *)

\* A faulty variant: the fragment is compared as given.
PathMatchesFragmentAsGiven(path, app_name) == Contains(ToLowercase(path), app_name)

\* The closure of find: s.path.to_lowercase().contains(&app_name.to_lowercase())
PathMatches(path, app_name) == Contains(ToLowercase(path), ToLowercase(app_name))

\* A faulty variant: with no match the first item is taken.
FindItemOrFirst(items, app_name) ==
    LET hits == {i \in 1..Len(items) : Contains(ToLowercase(items[i].path), ToLowercase(app_name))}
    IN  IF Len(items) = 0 THEN 0
        ELSE IF hits = {} THEN items[1].handle
        ELSE items[CHOOSE i \in hits : \A j \in hits : i <= j].handle

\* A faulty variant: the last item the closure accepts is taken.
FindItemLast(items, app_name) ==
    LET hits == {i \in 1..Len(items) : PathMatches(items[i].path, app_name)}
    IN  IF hits = {} THEN 0
        ELSE items[CHOOSE i \in hits : \A j \in hits : j <= i].handle

\* .into_iter().find(..): the handle of the first item the closure accepts,
\* 0 for None.
FindItem(items, app_name) ==
    LET hits == {i \in 1..Len(items) : PathMatches(items[i].path, app_name)}
    IN  IF hits = {} THEN 0
        ELSE items[CHOOSE i \in hits : \A j \in hits : i <= j].handle

\* Setter calls to each of the handles hs in turn, the first failure ending
\* them.
RECURSIVE SetVolumeOfEach(_, _, _, _, _)
SetVolumeOfEach(ss, hs, val, setOk, i) ==
    IF i > Len(hs) THEN [ok |-> TRUE, sessions |-> ss]
    ELSE LET set == HandleSetVolume(ss, hs[i], val, setOk)
         IN  IF set.ok THEN SetVolumeOfEach(set.sessions, hs, val, setOk, i + 1) ELSE set

\* A faulty variant: every item the closure accepts is set, not the first.
SetAppVolumeEveryMatch(app_name, volume, enumOk, setOk) ==
    LET enum == Enumerate(sessions, enumOk)
        normalized == Normalize(volume)
        hits == SelectSeq([i \in 1..Len(enum.items) |-> enum.items[i].handle],
                          LAMBDA h : PathMatches(enum.items[h].path, app_name))
        set == SetVolumeOfEach(sessions, hits, normalized, setOk, 1)
    IN  /\ last' = Call("set_app_volume", app_name, volume, FALSE, enumOk, 0, setOk)
        /\ IF ~enum.ok
           THEN /\ ret' = Err
                /\ written' = <<>>
                /\ UNCHANGED <<sessions, touched>>
           ELSE IF hits = <<>>
           THEN /\ ret' = AppNotFoundMsg(app_name)
                /\ written' = <<>>
                /\ UNCHANGED <<sessions, touched>>
           ELSE /\ written' = [k \in 1..(IF set.ok THEN Len(hits) ELSE 1) |->
                                 [handle |-> hits[k], attr |-> "volume", val |-> normalized]]
                /\ touched' = touched \cup {written'[k].handle : k \in 1..Len(written')}
                /\ sessions' = set.sessions
                /\ ret' = IF set.ok THEN AppSetMsg(app_name, volume, normalized) ELSE Err
        /\ UNCHANGED initial

SetAppVolume(app_name, volume, enumOk, setOk) ==
    LET enum == Enumerate(sessions, enumOk)
        normalized == Normalize(volume)
        session == FindItem(enum.items, app_name)
        set == HandleSetVolume(sessions, session, normalized, setOk)
    IN  /\ last' = Call("set_app_volume", app_name, volume, FALSE, enumOk, 0, setOk)
        /\ IF ~enum.ok
           THEN /\ ret' = Err
                /\ written' = <<>>
                /\ UNCHANGED <<sessions, touched>>
           ELSE IF session = 0
           THEN /\ ret' = AppNotFoundMsg(app_name)
                /\ written' = <<>>
                /\ UNCHANGED <<sessions, touched>>
           ELSE /\ written' = <<[handle |-> session, attr |-> "volume", val |-> normalized]>>
                /\ touched' = touched \cup {session}
                /\ sessions' = set.sessions
                /\ ret' = IF set.ok THEN AppSetMsg(app_name, volume, normalized) ELSE Err
        /\ UNCHANGED initial

(* --------------------------- specifications ---------------------------- *)

\* What the subsystem may answer during one call.  When enumeration fails
\* no handle exists and no further subsystem call is made.
BadReads(enumOk) == IF enumOk THEN 0..Len(sessions) ELSE {0}

SetOutcomes(enumOk) == IF enumOk THEN BOOLEAN ELSE {TRUE}

CallList ==
    \E enumOk \in BOOLEAN : \E badRead \in BadReads(enumOk) :
        ListAudioSessions(enumOk, badRead)

CallSetMasterVolume ==
    \E volume \in VolumeArgs, enumOk \in BOOLEAN : \E setOk \in SetOutcomes(enumOk) :
        SetMasterVolume(volume, enumOk, setOk)

CallMuteMasterVolume ==
    \E mute \in BOOLEAN, enumOk \in BOOLEAN : \E setOk \in SetOutcomes(enumOk) :
        MuteMasterVolume(mute, enumOk, setOk)

CallSetAppVolume ==
    \E app_name \in Fragments, volume \in VolumeArgs, enumOk \in BOOLEAN :
        \E setOk \in SetOutcomes(enumOk) :
            SetAppVolume(app_name, volume, enumOk, setOk)

Next ==
    \/ CallList
    \/ CallSetMasterVolume
    \/ CallMuteMasterVolume
    \/ CallSetAppVolume

Spec == Init /\ [][Next]_vars

(* ------------------------- derivation of app_name ---------------------- *)

\* Paths of length 0..MaxPathLen over PathAlphabet.  A path that begins
\* with two separators names a network share or a device, never the image
\* of a local process, and is left out.
BoundedPaths ==
    { p \in SeqsUpTo(PathAlphabet, MaxPathLen) :
        ~(Len(p) >= 2 /\ IsSeparator(p[1]) /\ IsSeparator(p[2])) }

\* One session whose executable path is any bounded path.
InitPaths ==
    /\ sessions \in { <<[pid |-> 7, path |-> p, vol |-> v, muted |-> FALSE]>> :
                        p \in BoundedPaths, v \in InitVolumes }
    /\ initial = sessions
    /\ last = NoCall
    /\ ret = NoRet
    /\ written = <<>>
    /\ touched = {}

NextPaths == CallList

SpecPaths == InitPaths /\ [][NextPaths]_vars

(* ----------------------- every volume argument ------------------------- *)

\* set_master_volume with every u8 and list_audio_sessions, the subsystem
\* answering every call: the sessions are those of Init.
CallSetMasterVolumeAnyU8 ==
    \E volume \in 0..U8Max : SetMasterVolume(volume, TRUE, TRUE)

CallListAnswered == ListAudioSessions(TRUE, 0)

NextPercent ==
    \/ CallSetMasterVolumeAnyU8
    \/ CallListAnswered

SpecPercent == Init /\ [][NextPercent]_vars

(* ------------------------------- claims -------------------------------- *)

\* A fragment occurs in a path when letter case is disregarded.
SameLetter(a, b) == LowerChar(a) = LowerChar(b)

ContainsIgnoringCase(hay, needle) ==
    \E k \in 0..(Len(hay) - Len(needle)) :
        \A j \in 1..Len(needle) : SameLetter(hay[k + j], needle[j])

\* The sessions whose path contains the fragment, case disregarded.
Matching(name) ==
    {i \in 1..Len(sessions) : ContainsIgnoringCase(sessions[i].path, name)}

SetOps == {"set_master_volume", "mute_master_volume", "set_app_volume"}

\* A name with everything from its last '.' onward removed.
StripFromLastDot(name) ==
    IF DotPositions(name) = {} THEN name
    ELSE LET lastDot == CHOOSE i \in DotPositions(name) :
                            \A j \in DotPositions(name) : j <= i
         IN  SubSeq(name, 1, lastDot - 1)

\* C1: for every percent p in 0..100 and a non-empty enumeration with valid
\* handles, set_master_volume(p) returns its confirmation message, and a
\* list_audio_sessions that follows it directly and succeeds reports the
\* first session's volume as p/100.
C1_SetMasterRoundTrip ==
    [][ (/\ last.op = "set_master_volume"
         /\ last.volume \in 0..100
         /\ last.enumOk
         /\ last.setOk
         /\ Len(sessions) > 0)
        => /\ ret.status = "ok"
           /\ ret.msg.kind = "Master volume set to {}% (normalized: {:.2})"
           /\ ret.msg.args[1] = last.volume
           /\ (last'.op = "list_audio_sessions" /\ ret'.status = "ok")
                => /\ Len(ret'.list) > 0
                   /\ ScalarEq(ret'.list[1].volume, [num |-> last.volume, den |-> 100]) ]_vars

\* C1 witness: set_master_volume(p) with p in 0..100 has succeeded and the
\* first session holds p/100, which it did not hold at the start.
C1_Witness ==
    /\ last.op = "set_master_volume"
    /\ last.volume \in 0..100
    /\ ret.status = "ok"
    /\ Len(sessions) > 0
    /\ ScalarEq(sessions[1].vol, [num |-> last.volume, den |-> 100])
    /\ ~ScalarEq(initial[1].vol, sessions[1].vol)

\* C2: the scalar every call passes to a handle's volume setter lies in
\* [0.0, 1.0], whatever u8 the caller gave.
C2_WrittenScalarInUnitRange ==
    \A i \in 1..Len(written) :
        written[i].attr = "volume"
            => /\ ScalarLE([num |-> 0, den |-> 1], written[i].val)
               /\ ScalarLE(written[i].val, [num |-> 1, den |-> 1])

\* C5: the app_name of every listed entry is the file name of its path
\* with everything from the last '.' onward removed: unchanged without a
\* '.', empty for an empty path.
C5_AppNameStripsLastDot ==
    (last.op = "list_audio_sessions" /\ ret.status = "ok")
        => \A i \in 1..Len(ret.list) :
               /\ ret.list[i].app_name = StripFromLastDot(FileName(ret.list[i].path))
               /\ (ret.list[i].path = <<>> => ret.list[i].app_name = <<>>)

\* C3: with enumeration succeeding, set_master_volume and
\* mute_master_volume on zero sessions return Ok("No master session
\* found"); set_app_volume(name, v) returns Ok("Could not find an
\* application named '<name>'") on zero sessions and whenever no path
\* contains the fragment; none of them issues a setter call.
C3_NotFoundIsSuccess ==
    /\ (last.op \in {"set_master_volume", "mute_master_volume"}
            /\ last.enumOk /\ Len(sessions) = 0)
        => /\ ret.status = "ok"
           /\ ret.msg = [kind |-> "No master session found", args |-> <<>>]
           /\ written = <<>>
    /\ (last.op = "set_app_volume" /\ last.enumOk /\ Matching(last.name) = {})
        => /\ ret.status = "ok"
           /\ ret.msg = [kind |-> "Could not find an application named '{}'",
                         args |-> <<last.name>>]
           /\ written = <<>>

\* C3 witness: set_app_volume found no match among existing sessions and
\* returned its not-found message while the subsystem would have failed
\* any setter call.
C3_Witness ==
    /\ last.op = "set_app_volume"
    /\ last.enumOk
    /\ ~last.setOk
    /\ Len(sessions) > 0
    /\ ret.status = "ok"
    /\ ret.msg.kind = "Could not find an application named '{}'"
    /\ written = <<>>

\* C4: set_app_volume(fragment, v) issues its one setter call to the
\* session of smallest enumeration index whose path contains the fragment
\* with letter case disregarded on both sides, and to no other session.
C4_FirstCaseInsensitiveMatch ==
    (last.op = "set_app_volume" /\ last.enumOk /\ Matching(last.name) # {})
        => /\ Len(written) = 1
           /\ written[1].handle \in Matching(last.name)
           /\ \A i \in Matching(last.name) : written[1].handle <= i

\* C4 witness: the fragment differs in letter case from the paths of two
\* sessions that both contain it, and only the first was set.
C4_Witness ==
    /\ last.op = "set_app_volume"
    /\ last.name = <<"A", "B">>
    /\ last.volume = 0
    /\ ret.status = "ok"
    /\ Len(sessions) = 2
    /\ Matching(last.name) = {1, 2}
    /\ ~Contains(sessions[1].path, last.name)
    /\ written[1].handle = 1
    /\ sessions[1].vol.num = 0
    /\ sessions[2].vol = initial[2].vol

\* C6: when enumeration and every read succeed, list_audio_sessions
\* returns one entry per session, in enumeration order, entry i carrying
\* the pid, path, volume and mute flag session i has.
C6_ListMirrorsEnumeration ==
    (last.op = "list_audio_sessions" /\ last.enumOk /\ last.badRead = 0)
        => /\ ret.status = "ok"
           /\ Len(ret.list) = Len(sessions)
           /\ \A i \in 1..Len(sessions) :
                  /\ ret.list[i].pid = sessions[i].pid
                  /\ ret.list[i].path = sessions[i].path
                  /\ ret.list[i].volume = sessions[i].vol
                  /\ ret.list[i].muted = sessions[i].muted

\* C6 witness: two sessions of the same pid but different paths are listed
\* as two entries, the first with a volume and mute flag set by earlier
\* calls.
C6_Witness ==
    /\ last.op = "list_audio_sessions"
    /\ ret.status = "ok"
    /\ Len(ret.list) = 2
    /\ ret.list[1].pid = ret.list[2].pid
    /\ ret.list[1].path # ret.list[2].path
    /\ ret.list[1].volume # ret.list[2].volume
    /\ ret.list[1].muted
    /\ ~ret.list[2].muted

\* The latest call resolved a target: a first session for the master
\* operations, a matching session for set_app_volume.
TargetExists ==
    IF last.op = "set_app_volume" THEN Matching(last.name) # {}
    ELSE Len(sessions) > 0

\* C7: a failing enumeration makes each operation return an error; a
\* failing read of any entry makes list_audio_sessions return an error and
\* no entries; a failing write to the resolved target makes the three
\* mutating operations return an error after that single setter call.
C7_FailurePropagates ==
    /\ (last.op # "none" /\ ~last.enumOk)
        => (ret.status = "err" /\ ret.list = <<>> /\ written = <<>>)
    /\ (last.op = "list_audio_sessions" /\ last.enumOk
            /\ last.badRead \in 1..Len(sessions))
        => (ret.status = "err" /\ ret.list = <<>>)
    /\ (last.op \in SetOps /\ last.enumOk /\ ~last.setOk /\ TargetExists)
        => (ret.status = "err" /\ Len(written) = 1)

\* C7 witness: the read of the second of two entries failed and
\* list_audio_sessions returned an error.
C7_Witness ==
    /\ last.op = "list_audio_sessions"
    /\ last.enumOk
    /\ Len(sessions) = 2
    /\ last.badRead = 2
    /\ ret.status = "err"

\* C8: when mute_master_volume(b) succeeds and is at once called again
\* with the same b on the same non-empty enumeration, the first session is
\* muted = b after each call and both calls return "Master volume muted: b".
C8_MuteIdempotent ==
    [][ /\ (last.op = "mute_master_volume" /\ last.enumOk /\ last.setOk
               /\ Len(sessions) > 0)
            => /\ sessions[1].muted = last.mute
               /\ ret.status = "ok"
               /\ ret.msg = [kind |-> "Master volume muted: {}", args |-> <<last.mute>>]
        /\ (/\ last.op = "mute_master_volume" /\ last.enumOk /\ last.setOk
            /\ Len(sessions) > 0
            /\ last'.op = "mute_master_volume" /\ last'.enumOk /\ last'.setOk
            /\ last'.mute = last.mute)
            => /\ sessions'[1].muted = last.mute
               /\ sessions' = sessions
               /\ ret' = ret ]_vars

\* C8 witness: mute_master_volume(TRUE) has succeeded on a non-empty
\* enumeration whose first session started unmuted.
C8_Witness ==
    /\ last.op = "mute_master_volume"
    /\ last.mute
    /\ ret.status = "ok"
    /\ Len(sessions) > 0
    /\ sessions[1].muted
    /\ ~initial[1].muted

\* The handles the call just made issued a setter for the attribute to.
WrittenTo(w, attr) == {w[k].handle : k \in {j \in 1..Len(w) : w[j].attr = attr}}

\* C9: each call issues at most one setter call; set_master_volume and
\* set_app_volume change nothing but the volume of their target,
\* mute_master_volume nothing but the mute flag of the first session,
\* list_audio_sessions nothing; so a session no call has targeted is as it
\* was at the start.
C9_FrameOfEachCall ==
    [][ /\ Len(written') <= 1
        /\ Len(sessions') = Len(sessions)
        /\ \A i \in 1..Len(sessions) :
               /\ sessions'[i].pid = sessions[i].pid
               /\ sessions'[i].path = sessions[i].path
               /\ (i \notin WrittenTo(written', "volume")
                      => sessions'[i].vol = sessions[i].vol)
               /\ (i \notin WrittenTo(written', "mute")
                      => sessions'[i].muted = sessions[i].muted)
        /\ (last'.op \in {"set_master_volume", "set_app_volume"}
               => WrittenTo(written', "mute") = {})
        /\ (last'.op = "set_master_volume" => WrittenTo(written', "volume") \subseteq {1})
        /\ (last'.op = "mute_master_volume"
               => WrittenTo(written', "volume") = {} /\ WrittenTo(written', "mute") \subseteq {1})
        /\ (last'.op = "list_audio_sessions" => written' = <<>>)
        /\ \A i \in 1..Len(sessions') : i \notin touched' => sessions'[i] = initial'[i]
      ]_vars

\* C9 witness: after a mute and a volume change of the first of two
\* sessions, made by different calls, the second is as it was at the start.
C9_Witness ==
    /\ last.op = "set_master_volume"
    /\ ret.status = "ok"
    /\ Len(sessions) = 2
    /\ touched = {1}
    /\ sessions[1].muted
    /\ sessions[1].vol # initial[1].vol
    /\ sessions[2] = initial[2]

\* C10: set_app_volume("", v) on a non-empty enumeration issues its setter
\* call, with v/100, to the first session and leaves the sessions as
\* set_master_volume(v) would; a non-empty fragment never resolves a
\* session whose path is empty.
C10_EmptyFragmentIsMaster ==
    [][ last'.op = "set_app_volume" /\ last'.enumOk
        => /\ (last'.name = <<>> /\ Len(sessions) > 0)
               => /\ written' = <<[handle |-> 1, attr |-> "volume",
                                   val |-> [num |-> last'.volume, den |-> 100]]>>
                  /\ sessions' =
                       HandleSetVolume(sessions, FirstItem(Enumerate(sessions, TRUE).items),
                                       Normalize(last'.volume), last'.setOk).sessions
           /\ last'.name # <<>>
               => \A k \in 1..Len(written') : sessions[written'[k].handle].path # <<>>
      ]_vars

\* C10 witness: set_app_volume("", v) set the volume of a first session
\* whose path is empty, leaving a second session alone.
C10_Witness ==
    /\ last.op = "set_app_volume"
    /\ last.name = <<>>
    /\ ret.status = "ok"
    /\ Len(sessions) = 2
    /\ sessions[1].path = <<>>
    /\ sessions[1].vol # initial[1].vol
    /\ written[1].handle = 1
    /\ sessions[2].vol = initial[2].vol

====
